---- MODULE Spec2Model ----
(***************************************************************************)
(* BRD generator: the storage layer (StorageManager, js/storage.js) and    *)
(* the form wizard (FormGenerator, js/form-generator.js).                  *)
(*                                                                         *)
(* A JavaScript object is a function whose DOMAIN is the set of its keys;  *)
(* a string value of a form field is a tuple of one-character strings, so  *)
(* that trim() and .length are computed; an ISO timestamp is the integer   *)
(* number of clock ticks it denotes (toISOString / new Date() are exact    *)
(* inverses of each other on these values); a record id is an integer in   *)
(* the order in which generateUniqueId hands ids out.                      *)
(***************************************************************************)
EXTENDS Integers, Sequences, FiniteSets, TLC

\* ---------------------------------------------------------------- bounds
MaxClock == 2
MaxIds == 2
MaxLocal == 2
MaxTimers == 2
MaxSubmitted == 1
MaxResubmitted == 2
MaxValueLen == 4

\* ------------------------------------------------------------- variables
VARIABLES
  local,        \* localStorage["brd_drafts"], parsed: a sequence of records
  remote,       \* users/{uid}/brds: document id -> document
  firestore,    \* StorageManager.firestore is set
  currentUser,  \* firebase.auth().currentUser
  now,          \* the wall clock
  nextId,       \* the next id generateUniqueId returns
  currentStep,  \* FormGenerator.currentStep
  formMode,     \* FormGenerator.mode
  formEditIndex, \* FormGenerator.editIndex
  formData,     \* FormGenerator.formData
  tempData,     \* localStorage["brd_temp_data"], parsed; Null when absent
  elements,     \* the inputs of #brd-form: name -> value
  invalid,      \* the names of the inputs of class "invalid-field"
  fieldError,   \* the ".field-error" paragraphs: input name -> text
  page,         \* BRDApp.currentPage
  menuTimers,   \* the pending setTimeout(showMainMenu) callbacks
  userMode,     \* storage.getUserMode(): localStorage["userMode"]
  listener,     \* BRDApp's onAuthStateChanged callback is registered
  pending,      \* migrateLocalData() is called and has not run yet
  fetching,     \* the query result a suspended loadBRDs() awaits, or Null
  last          \* what the last operation was given and what it returned

storeVars == <<local, remote, firestore, currentUser, now, nextId>>

wizardVars ==
  <<currentStep, formMode, formEditIndex, formData, tempData, elements,
    invalid, fieldError, page, menuTimers>>

authVars == <<userMode, listener, pending>>

vars == <<storeVars, wizardVars, authVars, fetching, last>>

\* ------------------------------------------------------- object helpers
Has(o, k) == k \in DOMAIN o

EmptyObject == <<>>

EmptyString == <<>>

NoUser == "none"

Null == [kind |-> "null"]

Index(n) == [kind |-> "number", value |-> n]

IdString(i) == [kind |-> "string", value |-> i]

\* arr[i] of a JavaScript array, i a 0-based number: undefined outside
InArray(arr, i) == i >= 0 /\ i < Len(arr)

At(arr, i) == arr[i + 1]

\* "BRD Tanpa Judul"
DefaultTitle ==
  <<"B", "R", "D", " ", "T", "a", "n", "p", "a", " ", "J", "u", "d", "u", "l">>

\* -------------------------------------------------------- StorageManager
canUseCloudStorage == firestore /\ currentUser # NoUser

getLocalBRDs == local

\* the object literal built in saveBRD: the given entries, then the metadata
brdWithMeta(brdData, newId, currentTime) ==
  [k \in DOMAIN brdData \cup {"id", "lastUpdated", "createdAt", "title"} |->
     CASE k = "id" -> IF Has(brdData, "id") THEN brdData.id ELSE newId
       [] k = "lastUpdated" -> currentTime
       [] k = "createdAt" ->
            IF Has(brdData, "createdAt") THEN brdData.createdAt
            ELSE currentTime
       [] k = "title" ->
            IF Has(brdData, "title") /\ brdData.title # EmptyString
            THEN brdData.title ELSE DefaultTitle
       [] OTHER -> brdData[k]]

\* docRef.set(brdData, { merge: mode === "edit" }) on the collection
saveBRDToFirestore(coll, brdData, mode) ==
  LET id == brdData.id
      doc == IF mode = "edit" /\ id \in DOMAIN coll
             THEN brdData @@ coll[id] ELSE brdData
  IN [i \in DOMAIN coll \cup {id} |-> IF i = id THEN doc ELSE coll[i]]

\* drafts.findIndex((d) => d.id === id), 0-based, -1 when there is none
findIndex(drafts, id) ==
  IF \E i \in 1..Len(drafts) : drafts[i].id = id
  THEN (CHOOSE i \in 1..Len(drafts) :
          /\ drafts[i].id = id
          /\ \A j \in 1..(i - 1) : drafts[j].id # id) - 1
  ELSE -1

\* the array saveBRDToLocalStorage writes back
saveBRDToLocalStorage(drafts, brdData, mode, editIndex) ==
  IF mode = "edit" /\ editIndex # Null /\ InArray(drafts, editIndex.value)
  THEN [drafts EXCEPT ![editIndex.value + 1] = brdData]
  ELSE LET existingIndex == findIndex(drafts, brdData.id)
       IN IF existingIndex >= 0
          THEN [drafts EXCEPT ![existingIndex + 1] = brdData]
          ELSE Append(drafts, brdData)

\* saveBRD: what it leaves in the two stores and what the caller gets.
\* remoteOk / localOk: whether docRef.set / localStorage.setItem succeed.
saveBRD(brdData, mode, editIndex, remoteOk, localOk) ==
  LET rec == brdWithMeta(brdData, nextId, now)
      cloud == canUseCloudStorage
      remoteThrew == cloud /\ ~remoteOk
      rem == IF cloud /\ remoteOk
             THEN saveBRDToFirestore(remote, rec, mode) ELSE remote
      loc == IF remoteThrew \/ ~localOk THEN local
             ELSE saveBRDToLocalStorage(getLocalBRDs, rec, mode, editIndex)
      localThrew == ~remoteThrew /\ ~localOk
  IN [local |-> loc, remote |-> rem, record |-> rec,
      remoteThrew |-> remoteThrew, localThrew |-> localThrew,
      error |-> remoteThrew \/ localThrew]

\* the documents of the collection, orderBy("lastUpdated", "desc"); Firestore
\* breaks ties by document id in the direction of the last orderBy
RECURSIVE loadBRDsFromFirestore(_)
loadBRDsFromFirestore(coll) ==
  IF DOMAIN coll = {} THEN <<>>
  ELSE LET first == CHOOSE i \in DOMAIN coll : \A j \in DOMAIN coll :
                      \/ coll[i].lastUpdated > coll[j].lastUpdated
                      \/ coll[i].lastUpdated = coll[j].lastUpdated /\ i >= j
       IN <<coll[first]>> \o
          loadBRDsFromFirestore([i \in DOMAIN coll \ {first} |-> coll[i]])

\* where the comparator (a, b) => new Date(b.lastUpdated) - new
\* Date(a.lastUpdated) puts x among the already sorted elements
RECURSIVE insertSorted(_, _)
insertSorted(sorted, x) ==
  IF sorted = <<>> THEN <<x>>
  ELSE IF Head(sorted).lastUpdated - x.lastUpdated < 0
       THEN <<x>> \o sorted
       ELSE <<Head(sorted)>> \o insertSorted(Tail(sorted), x)

\* brds.sort(comparator): Array.prototype.sort is stable
RECURSIVE sortNewestFirst(_)
sortNewestFirst(brds) ==
  IF brds = <<>> THEN <<>>
  ELSE insertSorted(sortNewestFirst(SubSeq(brds, 1, Len(brds) - 1)),
                    brds[Len(brds)])

\* loadBRDs with a catch block that returns an empty array instead of the
\* local cache
loadBRDsEmptyFallback(fetchOk, syncOk) ==
  IF canUseCloudStorage
  THEN IF fetchOk
       THEN LET brds == loadBRDsFromFirestore(remote)
            IN [value |-> sortNewestFirst(brds),
                local |-> IF syncOk THEN brds ELSE local,
                path |-> "remote", threw |-> FALSE]
       ELSE [value |-> <<>>, local |-> local, path |-> "fallback",
             threw |-> FALSE]
  ELSE [value |-> sortNewestFirst(getLocalBRDs), local |-> local,
        path |-> "local", threw |-> FALSE]

\* loadBRDs that leaves the local cache alone
loadBRDsNoSync(fetchOk, syncOk) ==
  IF canUseCloudStorage
  THEN IF fetchOk
       THEN [value |-> sortNewestFirst(loadBRDsFromFirestore(remote)),
             local |-> local, path |-> "remote", threw |-> FALSE]
       ELSE [value |-> getLocalBRDs, local |-> local, path |-> "fallback",
             threw |-> FALSE]
  ELSE [value |-> sortNewestFirst(getLocalBRDs), local |-> local,
        path |-> "local", threw |-> FALSE]

\* loadBRDs: the array returned and the local cache it leaves.
\* fetchOk / syncOk: whether the Firestore query / localStorage.setItem in
\* syncBRDsToLocalStorage succeed (the latter's error is caught there).
loadBRDs(fetchOk, syncOk) ==
  IF canUseCloudStorage
  THEN IF fetchOk
       THEN LET brds == loadBRDsFromFirestore(remote)
            IN [value |-> sortNewestFirst(brds),
                local |-> IF syncOk THEN brds ELSE local,
                path |-> "remote", threw |-> FALSE]
       ELSE [value |-> getLocalBRDs, local |-> local, path |-> "fallback",
             threw |-> FALSE]
  ELSE [value |-> sortNewestFirst(getLocalBRDs), local |-> local,
        path |-> "local", threw |-> FALSE]

\* loadBRDs in cloud mode after its await: answer is what the query it
\* awaited gives, the documents or a rejection. The array returned and the
\* local cache it leaves.
loadBRDsResume(answer, syncOk) ==
  IF answer.ok
  THEN [value |-> sortNewestFirst(answer.brds),
        local |-> IF syncOk THEN answer.brds ELSE local,
        path |-> "remote", threw |-> FALSE]
  ELSE [value |-> getLocalBRDs, local |-> local, path |-> "fallback",
        threw |-> FALSE]

\* loadBRD: brds[identifier] || null, or brds.find(by id) || null
loadBRD(identifier, fetchOk, syncOk) ==
  LET l == loadBRDs(fetchOk, syncOk)
      brds == l.value
      i == IF identifier.kind = "number" THEN identifier.value
           ELSE findIndex(brds, identifier.value)
  IN [value |-> IF InArray(brds, i) THEN At(brds, i) ELSE Null,
      local |-> l.local, path |-> l.path]

\* array.splice(i, 1), i 0-based
splice(arr, i) == SubSeq(arr, 1, i) \o SubSeq(arr, i + 2, Len(arr))

\* deleteBRD: the stores it leaves and whether it throws.
\* deleteOk / localOk: whether the Firestore delete / setItem succeed.
deleteBRD(identifier, fetchOk, syncOk, deleteOk, localOk) ==
  LET l == loadBRDs(fetchOk, syncOk)
      brds == l.value
      indexToDelete == IF identifier.kind = "number" THEN identifier.value
                       ELSE findIndex(brds, identifier.value)
      found == InArray(brds, indexToDelete)
      brdToDelete == At(brds, indexToDelete)
      cloud == canUseCloudStorage
      localIndex == findIndex(l.local, brdToDelete.id)
  IN IF ~found
     THEN [local |-> l.local, remote |-> remote, error |-> "notFound",
           deleted |-> Null]
     ELSE IF cloud /\ ~deleteOk
     THEN [local |-> l.local, remote |-> remote, error |-> "remote",
           deleted |-> Null]
     ELSE LET rem == IF cloud
                     THEN [i \in DOMAIN remote \ {brdToDelete.id} |->
                             remote[i]]
                     ELSE remote
          IN IF localIndex >= 0 /\ ~localOk
             THEN [local |-> l.local, remote |-> rem, error |-> "local",
                   deleted |-> Null]
             ELSE [local |-> IF localIndex >= 0
                             THEN splice(l.local, localIndex)
                             ELSE l.local,
                   remote |-> rem, error |-> "none",
                   deleted |-> brdToDelete]

\* the loop of migrateLocalToCloud over localBRDs[from..], cloudBRDs fixed;
\* the push number failAt (counted from 0 over the pushes made) throws
RECURSIVE migrateLoop(_, _, _, _, _)
migrateLoop(localBRDs, cloudBRDs, coll, migratedCount, failAt) ==
  IF localBRDs = <<>>
  THEN [remote |-> coll, migratedCount |-> migratedCount, threw |-> FALSE]
  ELSE LET localBRD == Head(localBRDs)
           existsInCloud ==
             \E i \in 1..Len(cloudBRDs) :
               /\ cloudBRDs[i].title = localBRD.title
               /\ cloudBRDs[i].createdAt = localBRD.createdAt
       IN IF existsInCloud
          THEN migrateLoop(Tail(localBRDs), cloudBRDs, coll, migratedCount,
                           failAt)
          ELSE IF failAt = Index(migratedCount)
          THEN [remote |-> coll, migratedCount |-> migratedCount,
                threw |-> TRUE]
          ELSE migrateLoop(Tail(localBRDs), cloudBRDs,
                           saveBRDToFirestore(coll, localBRD, "new"),
                           migratedCount + 1, failAt)

\* migrateLocalToCloud: the collection it leaves, the number it returns, the
\* number of records it wrote, and whether its catch block ran
migrateLocalToCloud(fetchOk, failAt) ==
  IF ~canUseCloudStorage
  THEN [remote |-> remote, value |-> 0, pushed |-> 0, threw |-> FALSE]
  ELSE IF ~fetchOk
  THEN [remote |-> remote, value |-> 0, pushed |-> 0, threw |-> TRUE]
  ELSE LET m == migrateLoop(getLocalBRDs, loadBRDsFromFirestore(remote),
                            remote, 0, failAt)
       IN [remote |-> m.remote,
           value |-> IF m.threw THEN 0 ELSE m.migratedCount,
           pushed |-> m.migratedCount,
           threw |-> m.threw]

\* ------------------------------------------------------------ the state
TitleA == <<"P", "l", "a", "n", "A">>

TitleB == <<"P", "l", "a", "n", "B">>

\* the titles callers of the storage API give
Titles == {TitleA}

\* the createdAt values a caller can have read for an id: loadBRD's answer
CreatedAtOf(id) ==
  {l.value.createdAt :
     l \in {m \in {loadBRD(IdString(id), ok, TRUE) : ok \in BOOLEAN} :
              m.value # Null}}

\* the objects a caller hands to saveBRD: with or without an id already
\* handed out, with or without the createdAt it read from the stores
BrdInputs ==
  {[title |-> t] : t \in Titles}
    \cup {[title |-> t, id |-> i] : t \in Titles, i \in 1..(nextId - 1)}
    \cup UNION {{[title |-> t, id |-> i, createdAt |-> c] :
                   t \in Titles, c \in CreatedAtOf(i)} :
                i \in 1..(nextId - 1)}

\* the outcomes of a call to the remote store: none can fail without one
RemoteOutcomes == IF canUseCloudStorage THEN BOOLEAN ELSE {TRUE}

\* the positions at which a list rendered from loadBRDs() shows the record
\* brdData, the local cache being as that load left it
ListPositions(brdData) ==
  {n \in 0..(MaxLocal - 1) :
     /\ Has(brdData, "id")
     /\ \E ok \in RemoteOutcomes :
          LET l == loadBRDs(ok, TRUE)
          IN /\ l.local = local
             /\ InArray(l.value, n)
             /\ At(l.value, n).id = brdData.id}

\* (mode, editIndex) of a saveBRD call: an edit index is the list position
\* of the record that is edited
ModeInputs(brdData) ==
  {<<"new", Null>>, <<"edit", Null>>}
    \cup {<<"edit", Index(n)>> : n \in ListPositions(brdData)}

Identifiers ==
  {Index(n) : n \in (0 - 1)..MaxLocal} \cup {IdString(i) : i \in 1..MaxIds}

\* --------------------------------------------------- temporary form data
\* storage.getTempData(), stored being what the key holds
getTempData(stored) == IF stored = Null THEN EmptyObject ELSE stored

\* saveTempData that stores data alone, without the entries already there
saveTempDataReplace(stored, data) == data

\* what storage.saveTempData(data) leaves under the key:
\* { ...existing, ...data }
saveTempData(stored, data) == data @@ getTempData(stored)

\* what storage.clearTempData() leaves under the key
clearTempData == Null

\* loadTempDataForEditing that merges brdData into what the key holds
loadTempDataForEditingMerge(brdData) == brdData @@ getTempData(tempData)

\* what storage.loadTempDataForEditing(brdData) leaves under the key
loadTempDataForEditing(brdData) == brdData

\* ---------------------------------------------------------- FormGenerator
\* String.prototype.trim
RECURSIVE trimStart(_)
trimStart(s) ==
  IF s # EmptyString /\ Head(s) = " " THEN trimStart(Tail(s)) ELSE s

RECURSIVE trimEnd(_)
trimEnd(s) ==
  IF s # EmptyString /\ s[Len(s)] = " "
  THEN trimEnd(SubSeq(s, 1, Len(s) - 1)) ELSE s

trim(s) == trimEnd(trimStart(s))

\* the sections of the form: the first and the last section of the schema,
\* with the fields title and versi of the first (length limits, a default
\* value) and the field prepared-by of the last
sections ==
  << [id |-> "document-info",
      fields |-> << [id |-> "title", name |-> "title", required |-> TRUE,
                     validation |-> [minLength |-> 5, maxLength |-> 100]],
                    [id |-> "versi", name |-> "versi", required |-> TRUE,
                     defaultValue |-> <<"1", ".", "0">>] >>],
     [id |-> "approval",
      fields |-> << [id |-> "prepared-by", name |-> "prepared-by",
                     required |-> TRUE] >>] >>

\* the texts markFieldInvalid is given
RequiredMessage == <<"Field ini wajib diisi">>

MinimalMessage(n) == <<"Minimal", n, "karakter">>

MaksimalMessage(n) == <<"Maksimal", n, "karakter">>

NoMessage == <<>>

\* validateField that tests element.value as it is, without trim()
validateFieldUntrimmed(field, elementValue) ==
  LET value == elementValue
      validation == IF Has(field, "validation") THEN field.validation
                    ELSE EmptyObject
      missing == Has(field, "required") /\ field.required
                   /\ value = EmptyString
      tooShort == /\ value # EmptyString
                  /\ Has(validation, "minLength")
                  /\ validation.minLength # 0
                  /\ Len(value) < validation.minLength
      tooLong == /\ value # EmptyString
                 /\ Has(validation, "maxLength")
                 /\ validation.maxLength # 0
                 /\ Len(value) > validation.maxLength
  IN [isValid |-> ~(missing \/ tooShort \/ tooLong),
      message |-> IF tooLong THEN MaksimalMessage(validation.maxLength)
                  ELSE IF tooShort THEN MinimalMessage(validation.minLength)
                  ELSE IF missing THEN RequiredMessage
                  ELSE NoMessage]

\* validateField that applies the length checks to an empty value as well
validateFieldLengthOfEmpty(field, elementValue) ==
  LET value == trim(elementValue)
      validation == IF Has(field, "validation") THEN field.validation
                    ELSE EmptyObject
      missing == Has(field, "required") /\ field.required
                   /\ value = EmptyString
      tooShort == /\ Has(validation, "minLength")
                  /\ validation.minLength # 0
                  /\ Len(value) < validation.minLength
      tooLong == /\ Has(validation, "maxLength")
                 /\ validation.maxLength # 0
                 /\ Len(value) > validation.maxLength
  IN [isValid |-> ~(missing \/ tooShort \/ tooLong),
      message |-> IF tooLong THEN MaksimalMessage(validation.maxLength)
                  ELSE IF tooShort THEN MinimalMessage(validation.minLength)
                  ELSE IF missing THEN RequiredMessage
                  ELSE NoMessage]

\* validateField(field, element): the value it returns and the text of the
\* last markFieldInvalid it made (NoMessage when it made none)
validateField(field, elementValue) ==
  LET value == trim(elementValue)
      validation == IF Has(field, "validation") THEN field.validation
                    ELSE EmptyObject
      missing == Has(field, "required") /\ field.required
                   /\ value = EmptyString
      tooShort == /\ value # EmptyString
                  /\ Has(validation, "minLength")
                  /\ validation.minLength # 0
                  /\ Len(value) < validation.minLength
      tooLong == /\ value # EmptyString
                 /\ Has(validation, "maxLength")
                 /\ validation.maxLength # 0
                 /\ Len(value) > validation.maxLength
  IN [isValid |-> ~(missing \/ tooShort \/ tooLong),
      message |-> IF tooLong THEN MaksimalMessage(validation.maxLength)
                  ELSE IF tooShort THEN MinimalMessage(validation.minLength)
                  ELSE IF missing THEN RequiredMessage
                  ELSE NoMessage]

\* the fields of a section as a set
FieldsOf(section) == {section.fields[i] : i \in 1..Len(section.fields)}

FieldNamed(section, name) == CHOOSE f \in FieldsOf(section) : f.name = name

\* this.sections[index] is defined
IsSection(index) == InArray(sections, index)

\* the form and its page as the methods of FormGenerator see them
Form ==
  [currentStep |-> currentStep, formData |-> formData,
   tempData |-> tempData, elements |-> elements, invalid |-> invalid,
   fieldError |-> fieldError]

\* validateCurrentSection(): the value it returns, the marks it leaves on the
\* inputs, and whether it threw (this.sections[this.currentStep] undefined)
validateCurrentSection(w) ==
  IF ~IsSection(w.currentStep)
  THEN [isValid |-> FALSE, invalid |-> {}, fieldError |-> w.fieldError,
        threw |-> TRUE]
  ELSE LET currentSection == At(sections, w.currentStep)
           failed == {f \in FieldsOf(currentSection) :
                        /\ Has(w.elements, f.name)
                        /\ ~validateField(f, w.elements[f.name]).isValid}
           names == {f.name : f \in failed}
       IN [isValid |-> failed = {},
           invalid |-> names,
           fieldError |->
             [n \in DOMAIN w.fieldError \cup names |->
                IF n \in names
                THEN validateField(FieldNamed(currentSection, n),
                                   w.elements[n]).message
                ELSE w.fieldError[n]],
           threw |-> FALSE]

\* getCurrentFormData()
getCurrentFormData(w) == w.elements

\* the form after saveCurrentSectionData()
saveCurrentSectionData(w) ==
  LET merged == getCurrentFormData(w) @@ w.formData
  IN [w EXCEPT !.formData = merged,
               !.tempData = saveTempData(w.tempData, merged)]

\* the inputs buildSectionForm(section) creates, then the values
\* loadSavedSectionData(section) gives them
buildSectionForm(section) ==
  [n \in {f.name : f \in FieldsOf(section)} |->
     LET field == FieldNamed(section, n)
     IN IF Has(field, "defaultValue") /\ field.defaultValue # EmptyString
        THEN field.defaultValue ELSE EmptyString]

loadSavedSectionData(section, built, stored) ==
  LET saved == getTempData(stored)
  IN [n \in DOMAIN built |->
        IF Has(saved, n) /\ saved[n] # EmptyString THEN saved[n]
        ELSE built[n]]

\* the form after loadFormSection(index): an index past the last section is
\* refused; for any other index currentStep is assigned before the section
\* is built, and building an undefined section throws
loadFormSection(w, index) ==
  IF index >= Len(sections) THEN w
  ELSE IF ~IsSection(index) THEN [w EXCEPT !.currentStep = index]
  ELSE LET section == At(sections, index)
       IN [w EXCEPT !.currentStep = index,
                    !.elements = loadSavedSectionData(
                                   section, buildSectionForm(section),
                                   w.tempData),
                    !.invalid = {},
                    !.fieldError = EmptyObject]

\* the object FormGenerator.saveBRD hands to storage.saveBRD, formData being
\* what saveCurrentSectionData() left
brdDataOf(data) ==
  [k \in DOMAIN data \cup {"id", "lastUpdated", "createdAt"} |->
     CASE k = "id" -> IF Has(data, "id") THEN data.id ELSE nextId
       [] k = "lastUpdated" -> now
       [] k = "createdAt" ->
            IF Has(data, "createdAt") THEN data.createdAt ELSE now
       [] OTHER -> data[k]]

\* FormGenerator.saveBRD with clearTempData() and the timer in a finally
\* block: they run whether storage.saveBRD threw or not
FormGenerator_saveBRDFinally(w, remoteOk, localOk) ==
  LET w1 == saveCurrentSectionData(w)
      brdData == brdDataOf(w1.formData)
      s == saveBRD(brdData, formMode, formEditIndex, remoteOk, localOk)
  IN [form |-> [w1 EXCEPT !.tempData = clearTempData],
      local |-> s.local, remote |-> s.remote,
      nextId |-> IF Has(w1.formData, "id") \/ s.error THEN nextId
                 ELSE nextId + 1,
      handed |-> brdData,
      toast |-> IF s.error THEN "Gagal menyimpan BRD"
                ELSE "BRD berhasil disimpan!",
      scheduled |-> TRUE,
      threw |-> s.error]

\* FormGenerator.saveBRD(): the form and the stores it leaves, the object it
\* handed to storage.saveBRD, the toast, whether the return to the main menu
\* was scheduled, and whether it threw. An id that was generated for a save
\* that failed is in no store and no variable: the counter hands it out again.
FormGenerator_saveBRD(w, remoteOk, localOk) ==
  LET w1 == saveCurrentSectionData(w)
      brdData == brdDataOf(w1.formData)
      s == saveBRD(brdData, formMode, formEditIndex, remoteOk, localOk)
  IN [form |-> IF s.error THEN w1
               ELSE [w1 EXCEPT !.tempData = clearTempData],
      local |-> s.local, remote |-> s.remote,
      nextId |-> IF Has(w1.formData, "id") \/ s.error THEN nextId
                 ELSE nextId + 1,
      handed |-> brdData,
      toast |-> IF s.error THEN "Gagal menyimpan BRD"
                ELSE "BRD berhasil disimpan!",
      scheduled |-> ~s.error,
      threw |-> s.error]

ValidationToast == "Mohon isi semua kolom yang diperlukan dengan benar"

NoToast == "none"

\* navigateNext()
navigateNext(w, remoteOk, localOk) ==
  LET v == validateCurrentSection(w)
      marked == [w EXCEPT !.invalid = v.invalid, !.fieldError = v.fieldError]
      stay == [form |-> marked, local |-> local, remote |-> remote,
               nextId |-> nextId, handed |-> Null, toast |-> NoToast,
               scheduled |-> FALSE, threw |-> v.threw]
  IN IF v.threw THEN stay
     ELSE IF ~v.isValid THEN [stay EXCEPT !.toast = ValidationToast]
     ELSE IF w.currentStep < Len(sections) - 1
     THEN [stay EXCEPT
             !.form = loadFormSection(saveCurrentSectionData(marked),
                                      w.currentStep + 1)]
     ELSE FormGenerator_saveBRD(marked, remoteOk, localOk)

\* navigatePrevious()
navigatePrevious(w) ==
  IF w.currentStep > 0
  THEN loadFormSection(saveCurrentSectionData(w), w.currentStep - 1)
  ELSE w

\* the click listener of sidebar item index
sidebarClick(w, index) ==
  IF w.currentStep # index
  THEN loadFormSection(saveCurrentSectionData(w), index)
  ELSE w

\* loadBRDForEditing(index): the form and the local cache it leaves
loadBRDForEditing(w, index, fetchOk, syncOk) ==
  LET l == loadBRD(index, fetchOk, syncOk)
  IN [form |-> IF l.value # Null
               THEN [w EXCEPT !.formData = l.value,
                              !.tempData = loadTempDataForEditing(l.value)]
               ELSE w,
      local |-> l.local]

\* generateForm(mode, editIndex), after this.mode and this.editIndex are set
generateForm(w, newMode, newEditIndex, fetchOk, syncOk) ==
  LET cleared == [w EXCEPT !.currentStep = 0, !.elements = EmptyObject,
                           !.invalid = {}, !.fieldError = EmptyObject]
      loaded == IF newMode = "edit" /\ newEditIndex # Null
                THEN loadBRDForEditing(cleared, newEditIndex, fetchOk, syncOk)
                ELSE [form |-> cleared, local |-> local]
  IN [form |-> loadFormSection(loaded.form, 0), local |-> loaded.local]

\* ---------------------------------------------------- the wizard's state
TooShortTitle == <<"a", "b">>

Blank == <<" ">>

\* what a user types into the input of a name
Typed(name) ==
  CASE name = "title" -> {EmptyString, TooShortTitle, TitleA}
    [] name = "versi" -> {Blank, <<"1", ".", "0">>}
    [] name = "prepared-by" -> {EmptyString, <<"P">>}

\* the indices window.loadFormSection is called with
SectionIndices == (0 - 1)..Len(sections)

\* the field definition the listeners of an input were created with
FieldOfInput(name) ==
  CHOOSE f \in UNION {FieldsOf(sections[i]) : i \in 1..Len(sections)} :
    f.name = name

\* the state the constructors of FormGenerator and BRDApp leave
WizardInit ==
  /\ currentStep = 0
  /\ formMode = "new"
  /\ formEditIndex = Null
  /\ formData = EmptyObject
  /\ tempData = Null
  /\ elements = EmptyObject
  /\ invalid = {}
  /\ fieldError = EmptyObject
  /\ page = "main-menu"
  /\ menuTimers = 0

\* what BRDApp.initializeFirebase leaves with the initializeFirebase() of
\* firebase-init.js, which returns undefined, and with the one for local
\* development, which returns false: no listener is registered
AuthInit ==
  /\ userMode = "anonymous"
  /\ listener = FALSE
  /\ pending = FALSE
  /\ fetching = Null

SetForm(w) ==
  /\ currentStep' = w.currentStep
  /\ formData' = w.formData
  /\ tempData' = w.tempData
  /\ elements' = w.elements
  /\ invalid' = w.invalid
  /\ fieldError' = w.fieldError

\* BRDApp.showWizard(mode, editIndex): "new" from the main menu, "edit" with
\* the position of an entry of the list loadBRDs() gives
ShowWizard ==
  \E newMode \in {"new", "edit"}, n \in 0..(MaxLocal - 1),
     fetchOk \in RemoteOutcomes :
  \E syncOk \in IF fetchOk THEN RemoteOutcomes ELSE {TRUE} :
  \E newEditIndex \in {IF newMode = "edit" THEN Index(n) ELSE Null} :
  \E g \in {generateForm(Form, newMode, newEditIndex, fetchOk, syncOk)} :
       /\ page = "main-menu"
       /\ newMode = "new" => n = 0 /\ fetchOk /\ syncOk
       /\ newMode = "edit" =>
            \E ok \in RemoteOutcomes : InArray(loadBRDs(ok, TRUE).value, n)
       /\ page' = "wizard"
       /\ formMode' = newMode
       /\ formEditIndex' = newEditIndex
       /\ SetForm(g.form)
       /\ local' = g.local
       /\ last' = [op |-> "start"]
       /\ UNCHANGED <<remote, firestore, currentUser, now, nextId, menuTimers>>
       /\ UNCHANGED <<authVars, fetching>>

\* the user edits an input: its "input" listener clears the field's marks
TypeValue ==
  \E name \in DOMAIN elements :
  \E value \in Typed(name) :
       /\ page = "wizard"
       /\ elements' = [elements EXCEPT ![name] = value]
       /\ invalid' = invalid \ {name}
       /\ fieldError' = [n \in DOMAIN fieldError \ {name} |-> fieldError[n]]
       /\ last' = [op |-> "input"]
       /\ UNCHANGED <<storeVars, authVars, fetching, currentStep, formMode, formEditIndex,
                      formData, tempData, page, menuTimers>>

\* an input loses the focus: its "blur" listener validates the field
Blur ==
  \E name \in DOMAIN elements :
  \E v \in {validateField(FieldOfInput(name), elements[name])} :
       /\ page = "wizard"
       /\ ~v.isValid
       /\ invalid' = invalid \cup {name}
       /\ fieldError' = [n \in DOMAIN fieldError \cup {name} |->
                           IF n = name THEN v.message ELSE fieldError[n]]
       /\ last' = [op |-> "blur"]
       /\ UNCHANGED <<storeVars, authVars, fetching, currentStep, formMode, formEditIndex,
                      formData, tempData, elements, page, menuTimers>>

\* the "Selanjutnya" / "Simpan BRD" button
NavigateNextWithin(maxSubmitted) ==
  \E remoteOk \in RemoteOutcomes :
  \E localOk \in IF canUseCloudStorage /\ ~remoteOk THEN {TRUE} ELSE BOOLEAN :
  \E r \in {navigateNext(Form, remoteOk, localOk)} :
       /\ r.handed = Null => remoteOk /\ localOk
       /\ r.nextId <= maxSubmitted + 1
       /\ Len(r.local) <= MaxLocal
       /\ r.scheduled => menuTimers < MaxTimers
       /\ SetForm(r.form)
       /\ local' = r.local
       /\ remote' = r.remote
       /\ nextId' = r.nextId
       /\ menuTimers' = IF r.scheduled THEN menuTimers + 1 ELSE menuTimers
       /\ last' = [op |-> "next", handed |-> r.handed, threw |-> r.threw]
       /\ UNCHANGED <<firestore, currentUser, now, formMode, formEditIndex,
                      page>>
       /\ UNCHANGED <<authVars, fetching>>

NavigateNext ==
  /\ page = "wizard"
  /\ NavigateNextWithin(MaxSubmitted)

\* the same button in a session in which it is pressed again at the last
\* section
NavigateNextAgain ==
  /\ page = "wizard"
  /\ NavigateNextWithin(MaxResubmitted)

\* the "Sebelumnya" button, or a call of navigatePrevious() while the button
\* is disabled
NavigatePrevious ==
  /\ page = "wizard"
  /\ SetForm(navigatePrevious(Form))
  /\ last' = [op |-> "previous"]
  /\ UNCHANGED <<storeVars, authVars, fetching, formMode, formEditIndex, page, menuTimers>>

\* a click on an item of the sidebar
SidebarClick ==
  \E index \in 0..(Len(sections) - 1) :
       /\ page = "wizard"
       /\ currentStep # index
       /\ SetForm(sidebarClick(Form, index))
       /\ last' = [op |-> "jumpTo", index |-> index]
       /\ UNCHANGED <<storeVars, authVars, fetching, formMode, formEditIndex, page, menuTimers>>

\* window.loadFormSection(index)
WindowLoadFormSection ==
  \E index \in SectionIndices :
       /\ page = "wizard"
       /\ SetForm(loadFormSection(Form, index))
       /\ last' = [op |-> "loadFormSection"]
       /\ UNCHANGED <<storeVars, authVars, fetching, formMode, formEditIndex, page, menuTimers>>

\* the home button of the wizard page, confirmed
HomeFromWizard ==
  /\ page = "wizard"
  /\ page' = "main-menu"
  /\ last' = [op |-> "home"]
  /\ UNCHANGED <<storeVars, authVars, fetching, currentStep, formMode, formEditIndex, formData,
                 tempData, elements, invalid, fieldError, menuTimers>>

\* a callback FormGenerator.saveBRD scheduled runs: window.showMainMenu()
MenuTimer ==
  /\ menuTimers > 0
  /\ menuTimers' = menuTimers - 1
  /\ page' = "main-menu"
  /\ last' = [op |-> "timer"]
  /\ UNCHANGED <<storeVars, authVars, fetching, currentStep, formMode, formEditIndex, formData,
                 tempData, elements, invalid, fieldError>>

\* the page is loaded again: the objects are constructed anew, localStorage
\* and the remote store keep what they hold
Reload ==
  /\ currentStep' = 0
  /\ formMode' = "new"
  /\ formEditIndex' = Null
  /\ formData' = EmptyObject
  /\ elements' = EmptyObject
  /\ invalid' = {}
  /\ fieldError' = EmptyObject
  /\ page' = "main-menu"
  /\ menuTimers' = 0
  /\ last' = [op |-> "reload"]
  /\ UNCHANGED <<storeVars, authVars, fetching, tempData>>

InitWizard ==
  /\ local = <<>>
  /\ remote = EmptyObject
  /\ firestore = FALSE
  /\ currentUser = NoUser
  /\ now = 1
  /\ nextId = 1
  /\ WizardInit
  /\ AuthInit
  /\ last = [op |-> "init"]

Init ==
  /\ local = <<>>
  /\ remote = EmptyObject
  /\ firestore \in BOOLEAN
  /\ currentUser = NoUser
  /\ now = 1
  /\ nextId = 1
  /\ WizardInit
  /\ AuthInit
  /\ last = [op |-> "init"]

\* time passes
Tick ==
  /\ ~pending
  /\ now < MaxClock
  /\ now' = now + 1
  /\ last' = [op |-> "tick"]
  /\ UNCHANGED <<local, remote, firestore, currentUser, nextId>>
  /\ UNCHANGED <<wizardVars, authVars, fetching>>

\* the identity provider reports a signed-in user: the callback given to
\* onAuthStateChanged, when one is registered, calls migrateLocalData()
\* unless the stored user mode is "guest"
SignIn ==
  /\ currentUser = NoUser
  /\ currentUser' = "u1"
  /\ pending' = (listener /\ userMode # "guest")
  /\ last' = [op |-> "signIn"]
  /\ UNCHANGED <<local, remote, firestore, now, nextId, userMode, listener,
                 fetching>>
  /\ UNCHANGED wizardVars

\* BRDApp.signOut
SignOut ==
  /\ ~pending
  /\ currentUser # NoUser
  /\ currentUser' = NoUser
  /\ userMode' = "anonymous"
  /\ last' = [op |-> "signOut"]
  /\ UNCHANGED <<local, remote, firestore, now, nextId, listener, pending,
                 fetching>>
  /\ UNCHANGED wizardVars

\* storage.saveBRD(brdData, mode, editIndex)
Save ==
  \E brdData \in BrdInputs, remoteOk \in RemoteOutcomes :
  \E m \in ModeInputs(brdData) :
  \E localOk \in IF canUseCloudStorage /\ ~remoteOk THEN {TRUE} ELSE BOOLEAN :
  \E mode \in {m[1]}, editIndex \in {m[2]} :
  \E s \in {saveBRD(brdData, mode, editIndex, remoteOk, localOk)} :
       /\ Has(brdData, "id") \/ nextId <= MaxIds
       /\ Len(s.local) <= MaxLocal
       /\ local' = s.local
       /\ remote' = s.remote
       /\ nextId' = IF Has(brdData, "id") THEN nextId ELSE nextId + 1
       /\ last' = [op |-> "save", brdData |-> brdData, mode |-> mode,
                   editIndex |-> editIndex, error |-> s.error,
                   remoteThrew |-> s.remoteThrew,
                   localThrew |-> s.localThrew, id |-> s.record.id]
       /\ UNCHANGED <<firestore, currentUser, now>>
       /\ UNCHANGED <<wizardVars, authVars, fetching>>

\* storage.loadBRDs()
LoadAll ==
  \E fetchOk \in RemoteOutcomes :
  \E syncOk \in IF fetchOk THEN RemoteOutcomes ELSE {TRUE} :
  \E l \in {loadBRDs(fetchOk, syncOk)} :
       /\ ~pending
       /\ local' = l.local
       /\ last' = [op |-> "loadAll", path |-> l.path, value |-> l.value,
                   error |-> l.threw, synced |-> fetchOk /\ syncOk]
       /\ UNCHANGED <<remote, firestore, currentUser, now, nextId>>
       /\ UNCHANGED <<wizardVars, authVars, fetching>>

\* storage.loadBRD(identifier)
LoadOne ==
  \E identifier \in Identifiers, fetchOk \in RemoteOutcomes :
  \E syncOk \in IF fetchOk THEN RemoteOutcomes ELSE {TRUE} :
  \E l \in {loadBRD(identifier, fetchOk, syncOk)} :
       /\ local' = l.local
       /\ last' = [op |-> "loadOne", path |-> l.path, value |-> l.value]
       /\ UNCHANGED <<remote, firestore, currentUser, now, nextId>>
       /\ UNCHANGED <<wizardVars, authVars, fetching>>

\* storage.deleteBRD(identifier)
Delete ==
  \E identifier \in Identifiers, fetchOk \in RemoteOutcomes,
     deleteOk \in RemoteOutcomes :
  \E syncOk \in IF fetchOk THEN RemoteOutcomes ELSE {TRUE},
     localOk \in IF deleteOk THEN BOOLEAN ELSE {TRUE} :
  \E d \in {deleteBRD(identifier, fetchOk, syncOk, deleteOk, localOk)} :
       /\ local' = d.local
       /\ remote' = d.remote
       /\ last' = [op |-> "delete", identifier |-> identifier,
                   error |-> d.error, deleted |-> d.deleted]
       /\ UNCHANGED <<firestore, currentUser, now, nextId>>
       /\ UNCHANGED <<wizardVars, authVars, fetching>>

\* storage.migrateLocalToCloud()
Migrate ==
  \E fetchOk \in RemoteOutcomes,
     failAt \in {Null} \cup {Index(n) : n \in 0..(Len(local) - 1)} :
  \E m \in {migrateLocalToCloud(fetchOk, failAt)} :
       /\ remote' = m.remote
       /\ last' = [op |-> "migrate", value |-> m.value, pushed |-> m.pushed,
                   threw |-> m.threw]
       /\ UNCHANGED <<local, firestore, currentUser, now, nextId>>
       /\ UNCHANGED <<wizardVars, authVars, fetching>>

\* storage.saveBRD(brdData, "new") of a new document, under one of two titles
SaveNew ==
  \E title \in {TitleA, TitleB}, remoteOk \in RemoteOutcomes :
  \E localOk \in IF canUseCloudStorage /\ ~remoteOk THEN {TRUE} ELSE BOOLEAN :
  \E s \in {saveBRD([title |-> title], "new", Null, remoteOk, localOk)} :
       /\ ~pending
       /\ nextId <= MaxIds
       /\ Len(s.local) <= MaxLocal
       /\ local' = s.local
       /\ remote' = s.remote
       /\ nextId' = nextId + 1
       /\ last' = [op |-> "saveNew", error |-> s.error, id |-> s.record.id]
       /\ UNCHANGED <<firestore, currentUser, now>>
       /\ UNCHANGED <<wizardVars, authVars, fetching>>

\* BRDApp.setGuestMode: the "continue as guest" button
SetGuestMode ==
  /\ ~pending
  /\ currentUser = NoUser
  /\ userMode' = "guest"
  /\ page' = "main-menu"
  /\ last' = [op |-> "setGuestMode"]
  /\ UNCHANGED <<storeVars, listener, pending, fetching, currentStep, formMode,
                 formEditIndex, formData, tempData, elements, invalid,
                 fieldError, menuTimers>>

\* BRDApp.migrateLocalData, called by the onAuthStateChanged callback
MigrateLocalData ==
  \E fetchOk \in RemoteOutcomes,
     failAt \in {Null} \cup {Index(n) : n \in 0..(Len(local) - 1)} :
  \E m \in {migrateLocalToCloud(fetchOk, failAt)} :
       /\ pending
       /\ pending' = FALSE
       /\ remote' = m.remote
       /\ last' = [op |-> "migrate", value |-> m.value, pushed |-> m.pushed,
                   threw |-> m.threw]
       /\ UNCHANGED <<local, firestore, currentUser, now, nextId, userMode,
                      listener, fetching>>
       /\ UNCHANGED wizardVars

\* a browser in which the Firebase SDK is loaded; the listener is registered
\* where the initializeFirebase() of the deployment returns a truthy value
InitSignIn ==
  /\ local = <<>>
  /\ remote = EmptyObject
  /\ firestore = TRUE
  /\ currentUser = NoUser
  /\ now = 1
  /\ nextId = 1
  /\ WizardInit
  /\ userMode = "anonymous"
  /\ listener \in BOOLEAN
  /\ pending = FALSE
  /\ fetching = Null
  /\ last = [op |-> "init"]

\* the values of an input: strings of spaces and letters
RECURSIVE ValuesOfLen(_)
ValuesOfLen(n) ==
  IF n = 0 THEN {EmptyString}
  ELSE {<<c>> \o v : c \in {" ", "a"}, v \in ValuesOfLen(n - 1)}

ValueInputs == UNION {ValuesOfLen(n) : n \in 0..MaxValueLen}

\* the length limits of a field definition, as the schema writes them:
\* none, minLength, maxLength, or both
ValidationInputs ==
  {[minLength |-> m] : m \in 1..MaxValueLen}
    \cup {[maxLength |-> m] : m \in 1..MaxValueLen}
    \cup {[minLength |-> m, maxLength |-> n] :
            m \in 1..MaxValueLen, n \in 1..MaxValueLen}

\* field definitions: required or not, with or without length limits
FieldInputs ==
  {[name |-> "f"], [name |-> "f", required |-> TRUE]}
    \cup {[name |-> "f", validation |-> v] : v \in ValidationInputs}
    \cup {[name |-> "f", required |-> TRUE, validation |-> v] :
            v \in ValidationInputs}

\* a call validateField(field, element)
Validate ==
  \E field \in FieldInputs, value \in ValueInputs :
  \E v \in {validateField(field, value)} :
       /\ last' = [op |-> "validate", field |-> field, value |-> value,
                   isValid |-> v.isValid, message |-> v.message]
       /\ UNCHANGED <<storeVars, wizardVars, authVars, fetching>>

\* the objects callers give to saveTempData: any part of the two fields of
\* the first section
PartialInputs ==
  {EmptyObject}
    \cup {[title |-> t] : t \in {TitleA, TitleB}}
    \cup {[versi |-> v] : v \in {Blank}}
    \cup {[title |-> t, versi |-> v] : t \in {TitleA, TitleB}, v \in {Blank}}

\* the records loadBRDForEditing gives to loadTempDataForEditing
RecordInputs ==
  {brdWithMeta(d, 1, 1) : d \in PartialInputs \ {EmptyObject}}

\* storage.saveTempData(data); setOk: whether localStorage.setItem succeeds
\* (its error is caught and logged)
DraftSave ==
  \E data \in PartialInputs, setOk \in BOOLEAN :
       /\ tempData' = IF setOk THEN saveTempData(tempData, data) ELSE tempData
       /\ last' = [op |-> "saveTempData", data |-> data, setOk |-> setOk]
       /\ UNCHANGED <<storeVars, authVars, fetching, currentStep, formMode,
                      formEditIndex, formData, elements, invalid, fieldError,
                      page, menuTimers>>

\* storage.getTempData()
DraftLoad ==
  /\ last' = [op |-> "getTempData", value |-> getTempData(tempData)]
  /\ UNCHANGED <<storeVars, authVars, fetching, wizardVars>>

\* storage.clearTempData()
DraftClear ==
  /\ tempData' = clearTempData
  /\ last' = [op |-> "clearTempData"]
  /\ UNCHANGED <<storeVars, authVars, fetching, currentStep, formMode, formEditIndex,
                 formData, elements, invalid, fieldError, page, menuTimers>>

\* storage.loadTempDataForEditing(brdData)
DraftLoadRecord ==
  \E brdData \in RecordInputs, setOk \in BOOLEAN :
       /\ tempData' = IF setOk THEN loadTempDataForEditing(brdData)
                       ELSE tempData
       /\ last' = [op |-> "loadTempDataForEditing", data |-> brdData,
                   setOk |-> setOk]
       /\ UNCHANGED <<storeVars, authVars, fetching, currentStep, formMode,
                      formEditIndex, formData, elements, invalid, fieldError,
                      page, menuTimers>>

\* ------------------------------------------------------ the properties
\* the number of entries of arr equal to x
RECURSIVE Count(_, _)
Count(arr, x) ==
  IF arr = <<>> THEN 0
  ELSE (IF Head(arr) = x THEN 1 ELSE 0) + Count(Tail(arr), x)

SameContents(a, b) ==
  /\ Len(a) = Len(b)
  /\ \A i \in 1..Len(a) : Count(a, a[i]) = Count(b, a[i])

NewestFirst(brds) ==
  \A i \in 1..(Len(brds) - 1) : brds[i].lastUpdated >= brds[i + 1].lastUpdated

HasId(arr, id) == \E i \in 1..Len(arr) : arr[i].id = id

\* after is before with the entry of rec.id replaced by rec, or with rec
\* appended when before has no such entry
IsUpsert(before, after, rec) ==
  IF HasId(before, rec.id)
  THEN /\ Len(after) = Len(before)
       /\ \A i \in 1..Len(before) :
            after[i] = IF before[i].id = rec.id THEN rec ELSE before[i]
  ELSE after = Append(before, rec)

\* C1: after a save that succeeded, loadOne(id) returns a record with the
\* saved field values, and a save of an id that loadOne already returned
\* leaves its createdAt as it was: so createdAt stays what the first save of
\* the id stamped, through any number of later saves.
C1_RoundTrip ==
  [][\A id \in 1..MaxIds, ok \in BOOLEAN :
       (last'.op = "save" /\ ~last'.error /\ last'.id = id) =>
         LET before == loadBRD(IdString(id), ok, TRUE).value
             after == loadBRD(IdString(id), ok, TRUE).value'
         IN /\ after # Null
            /\ after.title = last'.brdData.title
            /\ before # Null => after.createdAt = before.createdAt]_vars

\* C2: whatever loadAll() returns is sorted by lastUpdated, newest first,
\* on each of its paths (remote, local only, local fallback).
C2_Ordering == last.op = "loadAll" => NewestFirst(last.value)

\* C3: a save whose remote write failed still upserts the record into the
\* local cache and returns its id; it ends in an error only if the local
\* write failed too.
C3_RemoteFailureKeepsLocal ==
  (last.op = "save" /\ last.remoteThrew) =>
    /\ last.error => last.localThrew
    /\ ~last.error =>
         \E i \in 1..Len(local) :
           /\ local[i].id = last.id
           /\ local[i].title = last.brdData.title
           /\ local[i].lastUpdated = now

\* C4: when the remote fetch throws, loadAll() returns the records of the
\* local cache, each exactly once, leaves the cache as it was and throws
\* nothing.
C4_LocalFallback ==
  [][(last'.op = "loadAll" /\ last'.path = "fallback") =>
       /\ SameContents(last'.value, local)
       /\ local' = local
       /\ ~last'.error]_vars

C4_Witness ==
  /\ last.op = "loadAll"
  /\ last.path = "fallback"
  /\ Len(local) >= 2
  /\ local # loadBRDsFromFirestore(remote)

\* C5: the local cache never holds two records with the same id.
C5_OnePerId ==
  \A i, j \in 1..Len(local) : i # j => local[i].id # local[j].id

\* C6: a save that succeeded upserted its record into the local cache by
\* id, in "new" mode and in "edit" mode; the edit index is the record's
\* position in what loadAll() returned, the cache being as that load left it.
C6_UpsertById ==
  [][\A ok \in BOOLEAN :
       LET l == loadBRDs(ok, TRUE)
           rec == brdWithMeta(last'.brdData, nextId, now)
       IN (/\ last'.op = "save"
           /\ ~last'.error
           /\ l.local = local
           /\ last'.editIndex # Null =>
                /\ InArray(l.value, last'.editIndex.value)
                /\ At(l.value, last'.editIndex.value).id = rec.id)
          => IsUpsert(local, local', rec)]_vars

\* the fields of all sections
AllFields == UNION {FieldsOf(sections[i]) : i \in 1..Len(sections)}

IsRequired(f) == Has(f, "required") /\ f.required

\* a value with nothing but white space in it
IsBlank(value) == \A i \in 1..Len(value) : value[i] = " "

\* the number of characters of a value between its first and its last
\* character that is not white space
TrimmedLength(value) ==
  IF IsBlank(value) THEN 0
  ELSE LET solid == {i \in 1..Len(value) : value[i] # " "}
           first == CHOOSE i \in solid : \A j \in solid : i <= j
           final == CHOOSE i \in solid : \A j \in solid : i >= j
       IN final - first + 1

\* a raw value passes the required check and the length checks of a field
Passes(f, value) ==
  /\ IsRequired(f) => ~IsBlank(value)
  /\ (~IsBlank(value) /\ Has(f, "validation")) =>
       /\ Has(f.validation, "minLength") =>
            TrimmedLength(value) >= f.validation.minLength
       /\ Has(f.validation, "maxLength") =>
            TrimmedLength(value) <= f.validation.maxLength

\* the section shown has f as its only field that fails, and f fails by
\* being required and blank
OnlyMissing(f) ==
  /\ page = "wizard"
  /\ IsSection(currentStep)
  /\ f \in FieldsOf(At(sections, currentStep))
  /\ IsRequired(f)
  /\ IsBlank(elements[f.name])
  /\ \A g \in FieldsOf(At(sections, currentStep)) \ {f} :
       Passes(g, elements[g.name])

\* C7: next() on a section whose only failing field is a required field
\* with a blank value leaves currentStep and the stores as they were and
\* marks that field, and no other, as invalid with the text of the required
\* check.
C7_AdvanceBlocked ==
  [][\A f \in AllFields :
       (last'.op = "next" /\ OnlyMissing(f)) =>
         /\ currentStep' = currentStep
         /\ local' = local
         /\ remote' = remote
         /\ last'.handed = Null
         /\ invalid' = {f.name}
         /\ DOMAIN fieldError' = {f.name}
         /\ fieldError'[f.name] = RequiredMessage]_vars

\* next() was refused on the first section for the blank versi alone, the
\* title being valid
C7_Witness ==
  /\ last.op = "next"
  /\ page = "wizard"
  /\ currentStep = 0
  /\ elements["title"] = TitleA
  /\ elements["versi"] = Blank
  /\ invalid = {"versi"}
  /\ DOMAIN fieldError = {"versi"}
  /\ local = <<>>

\* a record has a value that is not blank for every required field of
\* every section
FullyValidated(rec) ==
  \A f \in AllFields :
    IsRequired(f) => Has(rec, f.name) /\ ~IsBlank(rec[f.name])

\* C8: every object the wizard hands to storage.saveBRD has a value that is
\* not blank for every required field of every section.
C8_HandedValidated ==
  (last.op = "next" /\ last.handed # Null) => FullyValidated(last.handed)

\* C9: while the wizard is shown, currentStep is the index of a section.
C9_IndexInRange ==
  page = "wizard" => currentStep \in 0..(Len(sections) - 1)

\* the keys of a record that are not form fields
Metadata == {"id", "lastUpdated", "createdAt"}

\* rec holds exactly the entries of draft, next to its metadata
IsRecordOf(rec, draft) ==
  /\ DOMAIN rec \ Metadata = DOMAIN draft \ Metadata
  /\ \A k \in DOMAIN draft \ Metadata : rec[k] = draft[k]

\* C10: when next() is called on the last section, all its fields pass and
\* the save succeeds, then the draft with the values of the section merged
\* into it is a record of the local cache, the temporary data are gone, and
\* the return to the main menu is scheduled.
C10_Submission ==
  [][(/\ last'.op = "next"
      /\ ~last'.threw
      /\ page = "wizard"
      /\ currentStep = Len(sections) - 1
      /\ \A f \in FieldsOf(At(sections, currentStep)) :
           Passes(f, elements[f.name]))
     => /\ \E i \in 1..Len(local') :
             IsRecordOf(local'[i], elements @@ getTempData(tempData))
        /\ getTempData(tempData') = EmptyObject
        /\ menuTimers' = menuTimers + 1]_vars

\* the form a step leaves
FormAfter ==
  [currentStep |-> currentStep', formData |-> formData',
   tempData |-> tempData', elements |-> elements', invalid |-> invalid',
   fieldError |-> fieldError']

\* C11: when storage.saveBRD throws during a submission, navigateNext()
\* throws too, currentStep stays at the last section, no return to the main
\* menu is scheduled, the temporary data keep the draft with the values of
\* the section merged into it, the stores are as they were, and a
\* navigateNext() in the state reached hands the same entries to
\* storage.saveBRD again and succeeds when the stores accept the write.
C11_SaveFailureRetry ==
  [][(last'.op = "next" /\ last'.handed # Null /\ last'.threw) =>
       /\ currentStep = Len(sections) - 1
       /\ currentStep' = currentStep
       /\ page' = "wizard"
       /\ menuTimers' = menuTimers
       /\ local' = local
       /\ remote' = remote
       /\ tempData' # Null
       /\ \A k \in DOMAIN elements : tempData'[k] = elements[k]
       /\ \A k \in DOMAIN getTempData(tempData) \ DOMAIN formData :
            Has(tempData', k)
       /\ nextId' = nextId
       /\ formMode' = formMode
       /\ formEditIndex' = formEditIndex
       /\ LET retry == navigateNext(FormAfter, TRUE, TRUE)
          IN ~retry.threw /\ retry.handed = last'.handed]_vars

\* a submission failed and left the wizard on the last section with its
\* draft
C11_Witness ==
  /\ last.op = "next"
  /\ last.handed # Null
  /\ last.threw
  /\ page = "wizard"
  /\ currentStep = Len(sections) - 1
  /\ local = <<>>
  /\ tempData # Null
  /\ Has(tempData, "prepared-by")

\* the draft with the live values of the section shown merged into it
MergedDraft == elements @@ getTempData(tempData)

\* every field of the section shown passes
SectionPasses ==
  /\ IsSection(currentStep)
  /\ \A f \in FieldsOf(At(sections, currentStep)) :
       Passes(f, elements[f.name])

\* C12: navigateNext() on a section that is not the last and whose fields
\* all pass leaves as temporary data the draft with the live values of the
\* section merged into it, increases currentStep by one, and hands no
\* object to storage.saveBRD.
C12_NextAdvances ==
  [][(/\ last'.op = "next"
      /\ SectionPasses
      /\ currentStep < Len(sections) - 1)
     => /\ currentStep' = currentStep + 1
        /\ tempData' = MergedDraft
        /\ last'.handed = Null
        /\ local' = local
        /\ remote' = remote]_vars

\* C13: navigatePrevious() on a section after the first leaves as temporary
\* data the draft with the live values of the section merged into it and
\* decreases currentStep by one, whether the fields of the section pass or
\* not; on the first section it changes neither currentStep nor the
\* temporary data. It never touches the stores.
C13_PreviousGoesBack ==
  [][last'.op = "previous" =>
       /\ local' = local
       /\ remote' = remote
       /\ IF currentStep > 0
          THEN /\ currentStep' = currentStep - 1
               /\ tempData' = MergedDraft
          ELSE /\ currentStep' = currentStep
               /\ tempData' = tempData]_vars

\* C14: a click on the sidebar item of another section leaves as temporary
\* data the draft with the live values of the section shown merged into
\* it, whether they pass or not, and makes the section clicked the current
\* one.
C14_JumpTo ==
  [][last'.op = "jumpTo" =>
       /\ currentStep' = last'.index
       /\ tempData' = MergedDraft
       /\ local' = local
       /\ remote' = remote]_vars

Unmatched ==
  {i \in 1..Len(local) :
     ~\E d \in DOMAIN remote : /\ remote[d].title = local[i].title
                               /\ remote[d].createdAt = local[i].createdAt}

\* C16: when cloud storage can be used and no call to it fails,
\* migrateLocalToCloud writes exactly the local records no document matches
\* in title and createdAt, returns their number, and each of them is a
\* document of the collection afterwards; the other documents are as before.
C16_MigrationDedup ==
  [][(last'.op = "migrate" /\ canUseCloudStorage /\ ~last'.threw) =>
       /\ last'.value = Cardinality(Unmatched)
       /\ last'.pushed = last'.value
       /\ \A i \in Unmatched :
            /\ local[i].id \in DOMAIN remote'
            /\ remote'[local[i].id] = local[i]
       /\ \A d \in DOMAIN remote' :
            \/ d \in DOMAIN remote /\ remote'[d] = remote[d]
            \/ \E i \in Unmatched : local[i].id = d
       /\ DOMAIN remote \subseteq DOMAIN remote'
       /\ local' = local]_vars

\* a migration found one local record matched and one not, and wrote the one
C16_Witness ==
  /\ last.op = "migrate"
  /\ ~last.threw
  /\ last.value = 1
  /\ Len(local) = 2
  /\ \A i \in 1..2 : local[i].id \in DOMAIN remote /\ remote[local[i].id] = local[i]
  /\ local[1].title # local[2].title

\* the documents a step wrote: new ones and changed ones
Written ==
  {d \in DOMAIN remote' : d \notin DOMAIN remote \/ remote'[d] # remote[d]}

\* C17: the number migrateLocalToCloud returns is the number of records it
\* wrote to the collection, also when one of its writes fails: every
\* document written before the failure is counted.
C17_PartialCount ==
  [][last'.op = "migrate" =>
       /\ last'.value = last'.pushed
       /\ last'.value >= Cardinality(Written)]_vars

\* C18: whenever the identity provider reports a signed-in user,
\* migrateLocalToCloud is run, whichever user mode is stored.
C18_MigrationOnSignIn ==
  (last.op = "signIn") ~> (last.op = "migrate")

\* C19: after loadBRDs() has returned a list that is not empty, deleteBRD(0)
\* and deleteBRD(id of the first record of that list) leave the same local
\* array and the same collection, and fail alike, whatever the remote calls
\* of the deletion do.
C19_DeleteResolution ==
  (last.op = "loadAll" /\ last.value # <<>>) =>
    \A fetchOk \in RemoteOutcomes, syncOk \in RemoteOutcomes,
       deleteOk \in RemoteOutcomes, localOk \in BOOLEAN :
      LET byIndex == deleteBRD(Index(0), fetchOk, syncOk, deleteOk, localOk)
          byId == deleteBRD(IdString(At(last.value, 0).id), fetchOk, syncOk,
                            deleteOk, localOk)
      IN /\ byIndex.local = byId.local
         /\ byIndex.remote = byId.remote
         /\ byIndex.error = byId.error

\* identifier names no record of the array brds
Unresolvable(identifier, brds) ==
  IF identifier.kind = "number"
  THEN ~InArray(brds, identifier.value)
  ELSE \A i \in 1..Len(brds) : brds[i].id # identifier.value

\* C20: deleteBRD with an index outside every array loadBRDs() can return,
\* negative ones included, or with an id no record of them has, throws its
\* "tidak ditemukan" error and takes no record out of the local array or
\* the collection.
C20_DeleteNotFound ==
  [][(/\ last'.op = "delete"
      /\ \A fetchOk \in RemoteOutcomes :
           Unresolvable(last'.identifier, loadBRDs(fetchOk, TRUE).value)) =>
       /\ last'.error = "notFound"
       /\ remote' = remote
       /\ \A i \in 1..Len(local) : Count(local', local[i]) >= Count(local, local[i])]_vars

\* C21: after a deleteBRD that returned true, the local array holds no record
\* of the id deleted, nor does the collection when cloud storage is in use,
\* and every record of another id is in both stores as it was before.
C21_DeleteFrame ==
  [][(last'.op = "delete" /\ last'.error = "none") =>
       LET id == last'.deleted.id
       IN /\ \A i \in 1..Len(local') : local'[i].id # id
          /\ canUseCloudStorage => id \notin DOMAIN remote'
          /\ \A i \in 1..Len(local) :
               local[i].id # id => Count(local', local[i]) > 0
          /\ \A d \in DOMAIN remote \ {id} :
               d \in DOMAIN remote' /\ remote'[d] = remote[d]]_vars

\* brds holds exactly the documents of the collection, one entry each
IsCollection(brds) ==
  /\ Len(brds) = Cardinality(DOMAIN remote)
  /\ \A d \in DOMAIN remote : \E i \in 1..Len(brds) : brds[i] = remote[d]

\* what loadBRDs does when cloud storage is not in use: the local records
\* are returned and no store changes
LocalLoad ==
  /\ SameContents(last'.value, local)
  /\ local' = local
  /\ remote' = remote

\* C22 as stated: when cloud storage is in use and the query succeeds,
\* loadBRDs returns the documents of the collection and the local array is
\* that result afterwards; when cloud storage is not in use it returns the
\* local records and changes no store.
C22_LoadAllAsStated ==
  [][last'.op = "loadAll" =>
       /\ last'.path = "remote" =>
            /\ IsCollection(last'.value)
            /\ local' = last'.value
            /\ remote' = remote
       /\ ~canUseCloudStorage => LocalLoad]_vars

\* C22: as stated, where the localStorage write of syncBRDsToLocalStorage
\* succeeds; where it throws, the error is caught and the local array is
\* left as it was.
C22_LoadAll ==
  [][last'.op = "loadAll" =>
       /\ last'.path = "remote" =>
            /\ IsCollection(last'.value)
            /\ local' = IF last'.synced THEN last'.value ELSE local
            /\ remote' = remote
       /\ ~canUseCloudStorage => LocalLoad]_vars

\* a load from the collection replaced the local array by two documents
C22_Witness ==
  /\ last.op = "loadAll"
  /\ last.path = "remote"
  /\ last.synced
  /\ Len(last.value) = 2
  /\ local = last.value
  /\ IsCollection(local)

\* C23: validateField returns false exactly when the field is required and
\* the trimmed value is empty, or the trimmed value is not empty and shorter
\* than minLength or longer than maxLength; an empty value of a field that
\* is not required is valid whatever its limits are.
C23_ValidateExactly ==
  last.op = "validate" =>
    /\ last.isValid <=> Passes(last.field, last.value)
    /\ (IsBlank(last.value) /\ ~IsRequired(last.field)) => last.isValid

\* an optional field with a minimum length was validated with a value of
\* white space only, and found valid
C23_Witness ==
  /\ last.op = "validate"
  /\ ~IsRequired(last.field)
  /\ Has(last.field, "validation")
  /\ Has(last.field.validation, "minLength")
  /\ last.field.validation.minLength = 2
  /\ last.value = <<" ", " ">>
  /\ last.isValid

\* what getTempData() returns
Draft == IF tempData = Null THEN EmptyObject ELSE tempData

\* the mapping m with exactly the keys of p overwritten
Overwritten(m, p) ==
  [k \in DOMAIN m \cup DOMAIN p |-> IF k \in DOMAIN p THEN p[k] ELSE m[k]]

\* the steps of the reference model of the temporary data; written: whether
\* the step's write took place
DraftStep(written) ==
  /\ last'.op = "saveTempData" =>
       Draft' = IF written THEN Overwritten(Draft, last'.data) ELSE Draft
  /\ last'.op = "clearTempData" => Draft' = EmptyObject
  /\ last'.op = "loadTempDataForEditing" =>
       Draft' = IF written THEN last'.data ELSE Draft
  /\ last'.op = "getTempData" => last'.value = Draft /\ Draft' = Draft

\* C25 as stated: the temporary data are empty at first, saveTempData
\* overwrites exactly the keys given, clearTempData empties them,
\* loadTempDataForEditing replaces them, and getTempData returns them.
C25_DraftAsStated ==
  Draft = EmptyObject /\ [][DraftStep(TRUE)]_vars

\* C25: as stated, where localStorage.setItem succeeds; where it throws, the
\* error is caught and the temporary data stay as they were.
C25_DraftRefinement ==
  Draft = EmptyObject /\ [][DraftStep(last'.setOk)]_vars

\* a save overwrote the title of a draft that came from a record and kept
\* the other entries
C25_Witness ==
  /\ last.op = "saveTempData"
  /\ last.setOk
  /\ last.data = [title |-> TitleB]
  /\ tempData # Null
  /\ Has(tempData, "id")
  /\ tempData.title = TitleB
  /\ Has(tempData, "versi")

\* the records of both stores
StoredRecords ==
  {local[i] : i \in 1..Len(local)} \cup {remote[d] : d \in DOMAIN remote}

\* C26: every record of the local array and of the collection has
\* createdAt <= lastUpdated; a saveBRD that succeeds stores its record with
\* lastUpdated at the current time and with the createdAt the stores had
\* for its id before, where they had one.
C26_Timestamps ==
  /\ [](\A r \in StoredRecords : r.createdAt <= r.lastUpdated)
  /\ [][(last'.op = "save" /\ ~last'.error) =>
          \A r \in StoredRecords' :
            r.id = last'.id =>
              \/ r \in StoredRecords
              \/ /\ r.lastUpdated = now
                 /\ \A old \in StoredRecords :
                      old.id = r.id => r.createdAt = old.createdAt]_vars

\* C27: a submission that succeeds in "new" mode appends one record to the
\* local array, of an id no record had before, and leaves the records that
\* were there as they were.
C27_CreateAddsOne ==
  [][(/\ last'.op = "next"
      /\ last'.handed # Null
      /\ ~last'.threw
      /\ formMode = "new") =>
       /\ Len(local') = Len(local) + 1
       /\ \A i \in 1..Len(local) : local'[i] = local[i]
       /\ \A i \in 1..Len(local) : local[i].id # local'[Len(local')].id]_vars

\* C28: a loadBRDs() made while a user is signed in returns every record of
\* the local array, those saved while no user was signed in included; no
\* deletion takes place in the specification this is checked in.
C28_NoRecordLost ==
  [][(last'.op = "loadAll" /\ currentUser # NoUser) =>
       \A i \in 1..Len(local) :
         \E j \in 1..Len(last'.value) : last'.value[j].id = local[i].id]_vars

Next ==
  \/ Tick
  \/ SignIn
  \/ SignOut
  \/ Save
  \/ LoadAll
  \/ LoadOne
  \/ Delete
  \/ Migrate

Spec == Init /\ [][Next]_vars

NextSignIn ==
  \/ Tick
  \/ SignIn
  \/ SignOut
  \/ SetGuestMode
  \/ SaveNew
  \/ LoadAll
  \/ MigrateLocalData

\* a call of migrateLocalData() that was made runs
SpecSignIn ==
  InitSignIn /\ [][NextSignIn]_vars /\ WF_vars(MigrateLocalData)

\* calls of validateField with every field definition and value
SpecValidate == InitWizard /\ [][Validate]_vars

NextDraft ==
  \/ DraftSave
  \/ DraftLoad
  \/ DraftClear
  \/ DraftLoadRecord

\* calls of the four temporary-data methods of StorageManager in any order
SpecDraft == InitWizard /\ [][NextDraft]_vars

NextWizard ==
  \/ ShowWizard
  \/ TypeValue
  \/ Blur
  \/ NavigateNext
  \/ NavigatePrevious
  \/ SidebarClick
  \/ WindowLoadFormSection
  \/ HomeFromWizard
  \/ MenuTimer
  \/ Reload

SpecWizard == InitWizard /\ [][NextWizard]_vars

\* ------------------------------------- a loadBRDs() suspended on its query
\* storage.loadBRDs() in cloud mode, up to its await: the server evaluates
\* the query of loadBRDsFromFirestore over the collection as it is now, or
\* the query fails; the caller stays suspended until the answer arrives
LoadAllFetch ==
  \E fetchOk \in BOOLEAN :
       /\ ~pending
       /\ canUseCloudStorage
       /\ fetching = Null
       /\ fetching' = [ok |-> fetchOk,
                       brds |-> IF fetchOk THEN loadBRDsFromFirestore(remote)
                                ELSE <<>>]
       /\ last' = [op |-> "fetch"]
       /\ UNCHANGED <<storeVars, wizardVars, authVars>>

\* the answer arrives and loadBRDs() runs to its return
LoadAllResume ==
  /\ fetching # Null
  /\ \E syncOk \in BOOLEAN :
     \E l \in {loadBRDsResume(fetching, syncOk)} :
       /\ fetching' = Null
       /\ local' = l.local
       /\ last' = [op |-> "loadAllResume", path |-> l.path,
                   value |-> l.value, synced |-> fetching.ok /\ syncOk]
       /\ UNCHANGED <<remote, firestore, currentUser, now, nextId>>
       /\ UNCHANGED <<wizardVars, authVars>>

\* a signed-in session in which documents are saved and the list is reloaded
\* (BRDApp.onAppFocus, BRDApp.loadBRDList)
NextFocus ==
  \/ Tick
  \/ SignIn
  \/ MigrateLocalData
  \/ SaveNew
  \/ LoadAllFetch
  \/ LoadAllResume

SpecFocus == InitSignIn /\ [][NextFocus]_vars

\* C29: when a saveBRD of a new document has written both stores while a
\* loadBRDs() was suspended on its query, the local array still holds the
\* saved record once that loadBRDs() has returned.
C29_SaveSurvivesLoad ==
  [][(/\ fetching # Null
      /\ last.op = "saveNew"
      /\ ~last.error
      /\ last'.op = "loadAllResume")
     => \E i \in 1..Len(local') : local'[i].id = last.id]_vars

\* ------------------------------------------ pressing the button repeatedly
\* a wizard in which the button of the last section is pressed more than
\* once before the main menu is shown
NextSubmit ==
  \/ ShowWizard
  \/ TypeValue
  \/ NavigateNextAgain
  \/ NavigatePrevious
  \/ MenuTimer

SpecSubmit == InitWizard /\ [][NextSubmit]_vars

\* C30: in a wizard in mode "new", a navigateNext() at the last section made
\* right after one that saved the document adds no further record to the
\* local array: one session adds at most one record.
C30_AtMostOnce ==
  [][(/\ last.op = "next" /\ last.handed # Null /\ ~last.threw
      /\ last'.op = "next" /\ last'.handed # Null
      /\ formMode = "new")
     => Len(local') = Len(local)]_vars
====
